---- MODULE Spec2Model ----
(***************************************************************************)
(* node-expat: the XmlStream wrapper (lib/node-expat.js and its later      *)
(* revision with error snippets) around the native expat parser object.    *)
(* The native parser is not part of the JavaScript sources; it is modelled *)
(* from the specification (sections 3, 4.1, 4.4, 4.5) as a character-level *)
(* tokenizer with a position tracker and a pause flag.                     *)
(***************************************************************************)
EXTENDS Integers, Naturals, Sequences, FiniteSets, TLC

(* ------------------------------ bounds --------------------------------- *)
\* longest document enumerated exhaustively over the alphabet
MaxShort == 2
\* number of reset() calls explored in one behaviour
MaxResets == 1
\* number of empty chunks explored in one behaviour
MaxEmpty == 1

(* ----------------------------- alphabet -------------------------------- *)
\* one abstract character is one input byte (the ASCII range)
LF == "LF"
NameChars == {"a", "b"}
WS == {LF}
Chars == {"<", ">", "/", "&", "a", "b", LF}

\* input units outside that alphabet, written only in the documents with
\* declarations: the reference terminator, two raw bytes of a single-byte
\* encoding, and each declaration as one unit (a chunk boundary falls beside
\* a declaration, not inside it)
RawBytes == {"x", "y"}
XmlDeclUtf8 == "<?xml version='1.0' encoding='UTF-8'?>"
XmlDeclWin == "<?xml version='1.0' encoding='Windows-1252'?>"
XmlDecls == (XmlDeclUtf8 :> "UTF-8") @@ (XmlDeclWin :> "Windows-1252")
KnownEncodings == {"UTF-8"}
DoctypeOpen == "<!DOCTYPE a ["
DoctypeClose == "]>"
EntityDecls ==
    ("<!ENTITY a 'ba'>" :> [name |-> <<"a">>, value |-> <<"b", "a">>])
    @@ ("<!ENTITY b '&a;&a;'>"
          :> [name |-> <<"b">>, value |-> <<"&", "a", ";", "&", "a", ";">>])
    @@ ("<!ENTITY ab '&b;&b;'>"
          :> [name |-> <<"a", "b">>, value |-> <<"&", "b", ";", "&", "b", ";">>])
    @@ ("<!ENTITY a '&a;'>" :> [name |-> <<"a">>, value |-> <<"&", "a", ";">>])
    @@ ("<!ENTITY a '&b;'>" :> [name |-> <<"a">>, value |-> <<"&", "b", ";">>])
    @@ ("<!ENTITY b '&a;'>" :> [name |-> <<"b">>, value |-> <<"&", "a", ";">>])
    @@ ("<!ENTITY a 'ab'>" :> [name |-> <<"a">>, value |-> <<"a", "b">>])
\* the units of a CDATA section's delimiters, '<' '!' '[CDATA[' and
\* ']' ']' '>', and the name of the predefined entity written in the documents
Bang == "!"
CdataKeyword == "[CDATA["
RSQB == "]"
Amp == "amp"
Predefined == (<<Amp>> :> <<"&">>)
Bytes ==
    Chars \cup {";"} \cup RawBytes \cup DOMAIN XmlDecls
        \cup {DoctypeOpen, DoctypeClose} \cup DOMAIN EntityDecls
        \cup {Bang, CdataKeyword, RSQB, Amp}

NULL == "null"

\* message texts of the single error taxonomy entry (spec section 7)
ErrMalformed == "not well-formed (invalid token)"
ErrMismatch == "mismatched tag"
ErrIncomplete == "no element found"
ErrUnknownEncoding == "unknown encoding"
ErrRecursive == "recursive entity reference"
ErrUndefined == "undefined entity"

(* --------------------------- sequence helpers -------------------------- *)
Min(a, b) == IF a < b THEN a ELSE b
Max(a, b) == IF a > b THEN a ELSE b

RECURSIVE SeqsUpTo(_, _)
SeqsUpTo(S, n) ==
    IF n = 0 THEN {<<>>}
    ELSE LET shorter == SeqsUpTo(S, n - 1)
         IN  shorter \cup {Append(s, c) : s \in shorter, c \in S}

\* number of line feeds among the first k characters of s
RECURSIVE CountLF(_, _)
CountLF(s, k) ==
    IF k = 0 THEN 0
    ELSE CountLF(s, k - 1) + (IF s[k] = LF THEN 1 ELSE 0)

\* number of characters after the last line feed among the first k of s
RECURSIVE CharsSinceLF(_, _)
CharsSinceLF(s, k) ==
    IF k = 0 \/ s[k] = LF THEN 0 ELSE 1 + CharsSinceLF(s, k - 1)

(* ------------------------------ events --------------------------------- *)
NoErr == [code |-> "none", message |-> NULL, lineNumber |-> 0,
          columnNumber |-> 0, byteIndex |-> 0, chunk |-> <<>>]

Ev(type, data) == [type |-> type, data |-> data, err |-> NoErr]
ErrEv(err) == [type |-> "error", data |-> <<>>, err |-> err]

ParseEventTypes == {"startElement", "endElement", "text"}

(* ------------------- native parser (spec sections 3, 4) ---------------- *)
\* construction-time defaults of every entity of the data model
\* the built-in decoder: every byte is the character of the same value
BuiltIn == [b \in Bytes |-> b]

NewParser ==
    [state |-> "Ready", tok |-> "Misc", acc |-> <<>>, txt |-> <<>>,
     stack |-> <<>>, buf |-> <<>>, pend |-> <<>>,
     line |-> 1, col |-> 0, bytes |-> 0, seen |-> FALSE,
     error |-> NULL, final |-> FALSE, active |-> FALSE,
     encoding |-> NULL, table |-> BuiltIn, hasTable |-> FALSE,
     asking |-> NULL, notifying |-> FALSE,
     entities |-> <<>>, depth |-> 0]

\* a well-formedness error at the byte now at the head of the buffer: the
\* byte is not consumed, the position counters stay on it
Fail(np, msg) ==
    [np EXCEPT !.state = "Error", !.error = msg, !.seen = TRUE]

\* Position Tracker: one character consumed
Advance(np, c) ==
    [np EXCEPT !.buf = Tail(@),
               !.bytes = @ + 1,
               !.line = IF c = LF THEN @ + 1 ELSE @,
               !.col = IF c = LF THEN 0 ELSE @ + 1,
               !.seen = TRUE]

\* start tag complete: push the frame, queue startElement
StartTag(a) ==
    [a EXCEPT !.stack = Append(@, a.acc),
              !.pend = <<Ev("startElement", a.acc)>>,
              !.acc = <<>>, !.tok = "Content"]

\* <name/> complete: queue startElement and endElement, no frame remains
EmptyTag(a) ==
    [a EXCEPT !.pend = <<Ev("startElement", a.acc), Ev("endElement", a.acc)>>,
              !.acc = <<>>,
              !.tok = IF a.stack = <<>> THEN "Epilog" ELSE "Content"]

\* end tag complete: the name must match the innermost open element
EndTag(np, a) ==
    IF a.stack # <<>> /\ a.stack[Len(a.stack)] = a.acc
    THEN [a EXCEPT !.stack = SubSeq(@, 1, Len(@) - 1),
                   !.pend = <<Ev("endElement", a.acc)>>,
                   !.acc = <<>>,
                   !.tok = IF Len(a.stack) = 1 THEN "Epilog" ELSE "Content"]
    ELSE Fail(np, ErrMismatch)

\* text accumulated so far becomes a pending text event
FlushText(a) ==
    [a EXCEPT !.pend = IF a.txt = <<>> THEN <<>> ELSE <<Ev("text", a.txt)>>,
              !.txt = <<>>]

\* Encoding Table Manager: the character a raw byte is decoded to
Decode(np, b) == np.table[b]

\* XML declaration: the encoding in effect is the override, if one was set
\* before parsing, else the declared one; an encoding the engine cannot
\* decode has to be asked for
XmlDecl(np, a, c) ==
    LET enc == IF np.encoding # NULL THEN np.encoding ELSE XmlDecls[c] IN
    [a EXCEPT !.pend = <<Ev("xmlDecl", <<XmlDecls[c]>>)>>,
              !.asking = IF enc \in KnownEncodings THEN NULL ELSE enc]

\* Entity Table: is the name declared, and its value (the first declaration)
IsDeclared(ents, name) == \E i \in 1..Len(ents) : ents[i].name = name
ValueOf(ents, name) ==
    ents[CHOOSE i \in 1..Len(ents) :
            /\ ents[i].name = name
            /\ \A j \in 1..(i - 1) : ents[j].name # name].value

\* mutant: a redeclaration replaces the recorded value
declare_lastWins(a, d) ==
    [a EXCEPT !.entities =
                  SelectSeq(@, LAMBDA e : e.name # d.name) \o <<d>>,
              !.pend = <<Ev("entityDecl", <<d.name, d.value>>)>>]

\* declare(name, value): recorded unless the name is declared already, and
\* surfaced as an event in either case
declare(a, d) ==
    [a EXCEPT !.entities = IF IsDeclared(@, d.name) THEN @ ELSE Append(@, d),
              !.pend = <<Ev("entityDecl", <<d.name, d.value>>)>>]

\* mutant: the references inside a value are not expanded
RECURSIVE Expand_shallow(_, _, _)
Expand_shallow(ents, v, open) ==
    IF v = <<>> THEN [err |-> NULL, text |-> <<>>, depth |-> Cardinality(open)]
    ELSE IF Head(v) # "&"
    THEN [Expand_shallow(ents, Tail(v), open) EXCEPT !.text = <<Head(v)>> \o @]
    ELSE LET semi == CHOOSE i \in 1..Len(v) :
                        v[i] = ";" /\ \A j \in 1..(i - 1) : v[j] # ";"
             name == SubSeq(v, 2, semi - 1)
         IN  IF ~IsDeclared(ents, name)
             THEN [err |-> ErrUndefined, text |-> <<>>, depth |-> Cardinality(open)]
             ELSE [Expand_shallow(ents, SubSeq(v, semi + 1, Len(v)), open)
                      EXCEPT !.text = ValueOf(ents, name) \o @]

\* mutant: a reference to an entity under expansion expands to nothing
RECURSIVE Expand_cycleAsEmpty(_, _, _)
Expand_cycleAsEmpty(ents, v, open) ==
    IF v = <<>> THEN [err |-> NULL, text |-> <<>>, depth |-> Cardinality(open)]
    ELSE IF Head(v) # "&"
    THEN [Expand_cycleAsEmpty(ents, Tail(v), open) EXCEPT !.text = <<Head(v)>> \o @]
    ELSE LET semi == CHOOSE i \in 1..Len(v) :
                        v[i] = ";" /\ \A j \in 1..(i - 1) : v[j] # ";"
             name == SubSeq(v, 2, semi - 1)
             rest == Expand_cycleAsEmpty(ents, SubSeq(v, semi + 1, Len(v)), open)
         IN  IF name \in open THEN rest
             ELSE IF ~IsDeclared(ents, name)
             THEN [err |-> ErrUndefined, text |-> <<>>, depth |-> Cardinality(open)]
             ELSE LET inner == Expand_cycleAsEmpty(ents, ValueOf(ents, name),
                                                   open \cup {name})
                  IN  IF inner.err # NULL THEN inner
                      ELSE [err |-> rest.err, text |-> inner.text \o rest.text,
                            depth |-> Max(inner.depth, rest.depth)]

\* expand(reference): the characters of v with every reference replaced by
\* its declared value, expanded in turn, depth-first and left to right; open
\* holds the names under expansion, and a reference to one of them is an
\* error; depth is the largest number of names under expansion at once
RECURSIVE Expand(_, _, _)
Expand(ents, v, open) ==
    IF v = <<>> THEN [err |-> NULL, text |-> <<>>, depth |-> Cardinality(open)]
    ELSE IF Head(v) # "&"
    THEN [Expand(ents, Tail(v), open) EXCEPT !.text = <<Head(v)>> \o @]
    ELSE LET semi == CHOOSE i \in 1..Len(v) :
                        v[i] = ";" /\ \A j \in 1..(i - 1) : v[j] # ";"
             name == SubSeq(v, 2, semi - 1)
         IN  IF name \in open
             THEN [err |-> ErrRecursive, text |-> <<>>, depth |-> Cardinality(open)]
             ELSE IF ~IsDeclared(ents, name)
             THEN [err |-> ErrUndefined, text |-> <<>>, depth |-> Cardinality(open)]
             ELSE LET inner == Expand(ents, ValueOf(ents, name), open \cup {name})
                  IN  IF inner.err # NULL THEN inner
                      ELSE LET rest == Expand(ents, SubSeq(v, semi + 1, Len(v)), open)
                           IN  [err |-> rest.err, text |-> inner.text \o rest.text,
                                depth |-> Max(inner.depth, rest.depth)]

\* a reference in content is complete: its expansion becomes text; the
\* predefined entities need no declaration
Reference(np, a) ==
    LET r == Expand(np.entities, <<"&">> \o np.acc \o <<";">>, {}) IN
    IF np.acc \in DOMAIN Predefined
    THEN [a EXCEPT !.txt = Predefined[np.acc], !.acc = <<>>, !.tok = "Content"]
    ELSE IF r.err # NULL THEN [Fail(np, r.err) EXCEPT !.depth = r.depth]
    ELSE [a EXCEPT !.txt = r.text, !.acc = <<>>, !.tok = "Content",
                   !.depth = r.depth]

\* mutant: the end of a CDATA section is taken at its first ']'
CDataSection_firstBracket(np, a, c) ==
    IF c = RSQB
    THEN [FlushText(a) EXCEPT !.pend = @ \o <<Ev("endCdata", <<>>)>>,
                              !.acc = <<>>, !.tok = "Content"]
    ELSE [a EXCEPT !.txt = Append(@, c)]

\* inside a CDATA section: every character is content as it stands, but for
\* the closing ']' ']' '>'; acc holds the brackets that may belong to it
CDataSection(np, a, c) ==
    IF c = RSQB
    THEN IF Len(np.acc) < 2 THEN [a EXCEPT !.acc = Append(@, c)]
         ELSE [a EXCEPT !.txt = Append(@, c)]
    ELSE IF c = ">" /\ Len(np.acc) = 2
    THEN [FlushText(a) EXCEPT !.pend = @ \o <<Ev("endCdata", <<>>)>>,
                              !.acc = <<>>, !.tok = "Content"]
    ELSE [a EXCEPT !.txt = @ \o np.acc \o <<c>>, !.acc = <<>>]

\* Grammar State Machine: one transition on the character at the head of buf
Token(np, c) ==
    LET a == Advance(np, c)
        bad == Fail(np, ErrMalformed)
    IN
    CASE np.tok = "Misc" ->
            IF c \in WS THEN a
            ELSE IF c = "<" THEN [a EXCEPT !.tok = "TagOpen"]
            ELSE IF c \in DOMAIN XmlDecls /\ np.bytes = 0 THEN XmlDecl(np, a, c)
            ELSE IF c = DoctypeOpen THEN [a EXCEPT !.tok = "DoctypeInternalSubset"]
            ELSE bad
      [] np.tok = "DoctypeInternalSubset" ->
            IF c \in WS THEN a
            ELSE IF c \in DOMAIN EntityDecls THEN declare(a, EntityDecls[c])
            ELSE IF c = DoctypeClose THEN [a EXCEPT !.tok = "Misc"]
            ELSE bad
      [] np.tok = "TagOpen" ->
            IF c \in NameChars THEN [a EXCEPT !.tok = "TagName", !.acc = <<c>>]
            ELSE IF c = "/" /\ np.stack # <<>> THEN [a EXCEPT !.tok = "EndTagOpen"]
            ELSE IF c = Bang /\ np.stack # <<>> THEN [a EXCEPT !.tok = "CDataOpen"]
            ELSE bad
      [] np.tok = "CDataOpen" ->
            IF c = CdataKeyword
            THEN [a EXCEPT !.tok = "CDataSection",
                           !.pend = <<Ev("startCdata", <<>>)>>]
            ELSE bad
      [] np.tok = "CDataSection" -> CDataSection(np, a, c)
      [] np.tok = "TagName" ->
            IF c \in NameChars THEN [a EXCEPT !.acc = Append(@, c)]
            ELSE IF c = ">" THEN StartTag(a)
            ELSE IF c = "/" THEN [a EXCEPT !.tok = "TagCloseEmpty"]
            ELSE IF c \in WS THEN [a EXCEPT !.tok = "TagSpace"]
            ELSE bad
      [] np.tok = "TagSpace" ->
            IF c \in WS THEN a
            ELSE IF c = ">" THEN StartTag(a)
            ELSE IF c = "/" THEN [a EXCEPT !.tok = "TagCloseEmpty"]
            ELSE IF c \in NameChars THEN [a EXCEPT !.tok = "AttributeName"]
            ELSE bad
      [] np.tok = "AttributeName" ->
            \* '=' and the quote characters are outside the alphabet
            IF c \in NameChars THEN a
            ELSE IF c \in WS THEN [a EXCEPT !.tok = "AttributeEq"]
            ELSE bad
      [] np.tok = "AttributeEq" ->
            IF c \in WS THEN a ELSE bad
      [] np.tok = "TagCloseEmpty" ->
            IF c = ">" THEN EmptyTag(a) ELSE bad
      [] np.tok = "Content" ->
            IF c = "<" THEN [FlushText(a) EXCEPT !.tok = "TagOpen"]
            ELSE IF c = "&" THEN [FlushText(a) EXCEPT !.tok = "Reference"]
            ELSE [a EXCEPT !.txt = Append(@, c)]
      [] np.tok = "Reference" ->
            IF c \in NameChars \cup {Amp} THEN [a EXCEPT !.acc = Append(@, c)]
            ELSE IF c = ";" /\ np.acc # <<>> THEN Reference(np, a)
            ELSE bad
      [] np.tok = "EndTagOpen" ->
            IF c \in NameChars THEN [a EXCEPT !.tok = "EndTagName", !.acc = <<c>>]
            ELSE bad
      [] np.tok = "EndTagName" ->
            IF c \in NameChars THEN [a EXCEPT !.acc = Append(@, c)]
            ELSE IF c \in WS THEN [a EXCEPT !.tok = "EndTagSpace"]
            ELSE IF c = ">" THEN EndTag(np, a)
            ELSE bad
      [] np.tok = "EndTagSpace" ->
            IF c \in WS THEN a
            ELSE IF c = ">" THEN EndTag(np, a)
            ELSE bad
      [] OTHER ->  \* Epilog
            IF c \in WS THEN a ELSE bad

\* mutant: pause() that suspends the parser whatever its state
stop_anyState(np) == [np EXCEPT !.state = "Paused"]

\* pause(): valid only while Parsing or already Paused
stop(np) ==
    IF np.state \in {"Parsing", "Paused"} THEN [np EXCEPT !.state = "Paused"]
    ELSE np

stopResult(np) == np.state \in {"Parsing", "Paused"}

\* Position Tracker getters
nativeLineNumber(np) == np.line
nativeColumnNumber(np) == np.col
nativeByteIndex(np) == IF np.seen THEN np.bytes ELSE -1
nativeGetError(np) == np.error

\* the table setter takes effect only inside the unknownEncoding notification
nativeSetUnknownEncoding(np, map) ==
    IF np.notifying THEN [np EXCEPT !.table = map, !.hasTable = TRUE] ELSE np

\* the encoding override can be set only before parsing has started
nativeSetEncoding(np, enc) ==
    IF np.state = "Ready" THEN [np EXCEPT !.encoding = enc] ELSE np

(* ------------------------- documents and chunks ------------------------ *)
SampleDocs ==
    { <<"<", "a", "/", ">">>,
      <<"<", "a", ">", "b", "<", "/", "a", ">">>,
      <<"<", "a", ">", "<", "b", "/", ">", "<", "/", "a", ">">>,
      <<LF, "<", "a", ">", "b", LF, "<", "/", "a", ">", LF>>,
      <<"<", "a", ">", "b", "<", "&", "a">>,
      <<"<", "a", ">", LF, "<", "&">>,
      <<"<", "a", ">", "<", "/", "b", ">">>,
      <<"<", "a", ">", "b">>,
      <<"<", "b", "/", ">", "<", "a", "/", ">">> }

Docs == SampleDocs \cup SeqsUpTo(Chars, MaxShort)

\* documents parsed after a reset()
SecondDocs ==
    { <<"<", "a", "/", ">">>,
      <<"<", "b", ">", "a", "<", "/", "b", ">">>,
      <<LF, "<", "a", ">", "<", "&">> }

\* documents fed where every method is called: a complete one, an
\* incomplete one, and one with a mismatched end tag
CtlDocs ==
    { <<"<", "a", "/", ">">>,
      <<"<", "a", ">", "b">>,
      <<"<", "a", ">", "<", "/", "b", ">">> }

\* documents with an XML declaration or a DOCTYPE with entity declarations
DeclDocs ==
    { <<XmlDeclWin, "<", "a", ">", "x", "y">>,
      <<XmlDeclUtf8, "<", "a", "/", ">">>,
      <<DoctypeOpen, "<!ENTITY a 'ba'>", "<!ENTITY b '&a;&a;'>",
        "<!ENTITY ab '&b;&b;'>", DoctypeClose,
        "<", "a", ">", "&", "a", "b", ";">>,
      <<DoctypeOpen, "<!ENTITY a '&a;'>", DoctypeClose,
        "<", "a", ">", "&", "a", ";">>,
      <<DoctypeOpen, "<!ENTITY a '&b;'>", "<!ENTITY b '&a;'>", DoctypeClose,
        "<", "a", ">", "b", "&", "a", ";", "b">>,
      <<DoctypeOpen, "<!ENTITY a 'ba'>", "<!ENTITY a 'ab'>", DoctypeClose,
        "<", "a", ">", "&", "a", ";">> }

\* documents with a CDATA section or a predefined entity reference, each
\* with the events the tests expect for it, texts collapsed; the last three
\* are not well-formed
CdataExpected ==
    (<<"<", "a", ">", "<", Bang, CdataKeyword, "<", "b", ">", "&", Amp, ";",
       "<", "/", "b", ">", RSQB, RSQB, ">", "<", "/", "a", ">">>
        :> <<Ev("startElement", <<"a">>), Ev("startCdata", <<>>),
             Ev("text", <<"<", "b", ">", "&", Amp, ";", "<", "/", "b", ">">>),
             Ev("endCdata", <<>>), Ev("endElement", <<"a">>)>>)
    @@ (<<"<", "a", ">", "b", "&", Amp, ";", "b", "<", "/", "a", ">">>
        :> <<Ev("startElement", <<"a">>), Ev("text", <<"b", "&", "b">>),
             Ev("endElement", <<"a">>)>>)
    @@ (<<"<", "a", ">", "&", Amp, ";", "<", Bang, CdataKeyword,
          RSQB, "a", RSQB, RSQB, RSQB, ">", RSQB, "<", "/", "a", ">">>
        :> <<Ev("startElement", <<"a">>), Ev("text", <<"&">>),
             Ev("startCdata", <<>>), Ev("text", <<RSQB, "a", RSQB>>),
             Ev("endCdata", <<>>), Ev("text", <<RSQB>>),
             Ev("endElement", <<"a">>)>>)
    @@ (<<"<", "a", ">", "<", Bang, CdataKeyword, "b", RSQB, RSQB>>
        :> <<Ev("startElement", <<"a">>), Ev("startCdata", <<>>),
             Ev("text", <<"b">>)>>)
    @@ (<<"<", "a", ">", "b", "<", Bang, "b", ">">>
        :> <<Ev("startElement", <<"a">>), Ev("text", <<"b">>)>>)
    @@ (<<"<", Bang, CdataKeyword, "b", RSQB, RSQB, ">">>
        :> <<>>)

CdataDocs == DOMAIN CdataExpected

\* names on whose startElement the listener pauses the parser; with the
\* empty set the consumer never pauses, from a callback or elsewhere
PauseSets == { {}, {<<"a">>}, {<<"b">>} }

\* the unknownEncoding listener: none registered, one that installs no
\* table, or one that installs the named table
Handlers == {"none", "ignore", "T1", "T2"}

\* the listener's map: map[i] = i but for the raw bytes
TableOf(h) ==
    IF h = "T1" THEN [BuiltIn EXCEPT !["x"] = "a", !["y"] = "b"]
    ELSE [BuiltIn EXCEPT !["x"] = "y", !["y"] = "x"]

\* the method the startElement listener calls on a name in pauseOn: pause()
\* ("none", the listener of the stop and resume test), reset() or destroy()
CallbackCalls == {"none", "reset", "destroy"}

\* encodings a caller passes to setEncoding()
Encodings == {"UTF-8"}

(* --------------------------- configuration ----------------------------- *)
VARIABLES
    variant,     \* which XmlStream class the stream is: "lib" or "rev"
    api,         \* how the harness feeds it: "stream" (write/end) or "direct" (parse)
    pauseOn,     \* names on whose startElement the listener calls a method
    handler,     \* what the unknownEncoding listener does, or which method
                 \* the startElement listener calls instead of pause()
    emitClose,   \* constructor option emitClose
    autoDestroy  \* constructor option autoDestroy

env == <<variant, api, pauseOn, handler, emitClose, autoDestroy>>

(* ----------------- XmlStream (src/lib/node-expat.js) ------------------- *)
\* JavaScript null, as returned by getError() when there is no error
NullError == [NoErr EXCEPT !.code = "null"]

\* the stream object a method works on: the native parser, the events its
\* listeners have recorded, the Writable's destroyed flag, the revision's
\* _byteIndex, and the listener's configuration
IsParseEv(e) == e.type \in ParseEventTypes
NParse(ev) == Len(SelectSeq(ev, IsParseEv))

\* mutant: the line getter reads the column counter
getCurrentLineNumber_column(o) == nativeColumnNumber(o.np)

getCurrentLineNumber(o) == nativeLineNumber(o.np)

\* mutant: the column getter reads the byte counter
getCurrentColumnNumber_bytes(o) == nativeByteIndex(o.np)

getCurrentColumnNumber(o) == nativeColumnNumber(o.np)

\* mutant: the byte index clamped to the non-negative range
getCurrentByteIndex_clamped(o) == Max(nativeByteIndex(o.np), 0)

getCurrentByteIndex(o) == nativeByteIndex(o.np)
getErrorMessage(o) == nativeGetError(o.np)

getCurrentState(o) ==
    [line |-> getCurrentLineNumber(o),
     column |-> getCurrentColumnNumber(o),
     byteIndex |-> getCurrentByteIndex(o)]

\* mutant: the null check of getError() inverted
getError_inverted(o) ==
    IF getErrorMessage(o) # NULL THEN NullError
    ELSE [code |-> "ERROR_XML_STREAM", message |-> NULL,
          lineNumber |-> getCurrentState(o).line,
          columnNumber |-> getCurrentState(o).column,
          byteIndex |-> getCurrentState(o).byteIndex,
          chunk |-> <<>>]

\* lib/node-expat.js getError(): message, code and the position state
getError(o) ==
    LET message == getErrorMessage(o) IN
    IF message = NULL THEN NullError
    ELSE [code |-> "ERROR_XML_STREAM", message |-> message,
          lineNumber |-> getCurrentState(o).line,
          columnNumber |-> getCurrentState(o).column,
          byteIndex |-> getCurrentState(o).byteIndex,
          chunk |-> <<>>]

\* mutant: pause() that never reaches the native parser
pause_noStop(o) == o

pause(o) ==
    IF o.destroyed THEN o ELSE [o EXCEPT !.np = stop(o.np)]

\* mutant: setEncoding() without the check of this.destroyed
setEncoding_unguarded(o, enc) ==
    [o EXCEPT !._encoding = enc, !.np = nativeSetEncoding(o.np, enc)]

\* mutant: setEncoding() that builds a new native parser for the encoding
setEncoding_recreate(o, enc) ==
    IF o.destroyed THEN o
    ELSE [o EXCEPT !._encoding = enc, !.np = [NewParser EXCEPT !.encoding = enc]]

setEncoding(o, enc) ==
    IF o.destroyed THEN o
    ELSE [o EXCEPT !._encoding = enc, !.np = nativeSetEncoding(o.np, enc)]

\* mutant: setUnknownEncoding() that does not pass the map on
setUnknownEncoding_dropped(o, map) == o

setUnknownEncoding(o, map) ==
    IF o.destroyed THEN o
    ELSE [o EXCEPT !.np = nativeSetUnknownEncoding(o.np, map)]

\* reset(): valid from any state but inside a parse call
nativeReset(np) == IF np.active THEN np ELSE NewParser

\* mutant: reset() that leaves the native parser as it is
reset_noop(o) == o

reset(o) == IF o.destroyed THEN o ELSE [o EXCEPT !.np = nativeReset(o.np)]

\* _destroy(error, callback): pause() on the already destroyed stream
_destroy(o) == IF variant = "lib" THEN pause(o) ELSE o

\* Writable.destroy(): the stream is marked destroyed, then _destroy() runs
destroy(o) == _destroy([o EXCEPT !.destroyed = TRUE])

\* 'close', emitted after a stream has been destroyed when emitClose is set
closeEvents == IF emitClose THEN <<Ev("close", <<>>)>> ELSE <<>>

\* has an event of this type been emitted
Emitted(ev, type) == \E i \in 1..Len(ev) : ev[i].type = type

\* mutant: no listener records endElement
emit_noEndElement(o, e) ==
    IF e.type = "endElement" THEN o ELSE [o EXCEPT !.ev = Append(@, e)]

\* the listeners of the test harness: every parse event is recorded, and on
\* a startElement whose name is in pauseOn the listener calls, from inside
\* the callback, pause() or, when the handler says so, reset() or destroy()
emit(o, e) ==
    LET rec == [o EXCEPT !.ev = Append(@, e)] IN
    IF e.type = "unknownEncoding"
    THEN IF o.handler = "none" THEN o
         ELSE IF o.handler = "ignore" THEN rec
         ELSE setUnknownEncoding(rec, TableOf(o.handler))
    ELSE IF e.type = "startElement" /\ e.data \in o.pauseOn
    THEN IF o.handler = "reset" THEN reset(rec)
         ELSE IF o.handler = "destroy"
         THEN [destroy(rec) EXCEPT !.mark = NParse(rec.ev)]
         ELSE [pause(rec) EXCEPT !.mark = NParse(rec.ev)]
    ELSE rec

\* the unknownEncoding notification: fired synchronously with the encoding
\* name; parsing goes on when a table was installed during it, and fails
\* otherwise
notify(o) ==
    LET during == emit([o EXCEPT !.np.notifying = TRUE],
                       Ev("unknownEncoding", <<o.np.asking>>))
        after == [during.np EXCEPT !.notifying = FALSE, !.asking = NULL]
    IN  [during EXCEPT !.np = IF after.hasTable THEN after
                              ELSE Fail(after, ErrUnknownEncoding)]

\* control loop of the native parser: deliver pending events one at a time,
\* checking the pause flag between any two, then consume buffered characters
RECURSIVE Drive(_)
Drive(o) ==
    LET np == o.np IN
    IF np.state \in {"Error", "Paused", "Finished"} THEN o
    ELSE IF np.pend # <<>>
         THEN Drive(emit([o EXCEPT !.np.pend = Tail(@)], Head(np.pend)))
    ELSE IF np.asking # NULL
         THEN Drive(notify(o))
    ELSE IF np.buf # <<>>
         THEN Drive([o EXCEPT !.np = Token(np, Decode(np, Head(np.buf)))])
    ELSE IF np.txt # <<>>
         THEN Drive([o EXCEPT !.np = FlushText(np)])
    ELSE IF np.final
         THEN [o EXCEPT !.np = IF np.tok = "Epilog"
                                THEN [np EXCEPT !.state = "Finished"]
                                ELSE Fail(np, ErrIncomplete)]
    ELSE o

\* consume(chunk, isFinal)
nativeParse(o, chunk, isFinal) ==
    IF o.np.state = "Error" THEN o
    ELSE IF o.np.state = "Paused"
         THEN [o EXCEPT !.np.buf = @ \o chunk, !.np.final = @ \/ isFinal]
    ELSE LET run == Drive([o EXCEPT !.np.state = "Parsing",
                                    !.np.active = TRUE,
                                    !.np.buf = @ \o chunk,
                                    !.np.final = isFinal])
         IN  [run EXCEPT !.np.active = FALSE]

parseOk(o) == o.np.state # "Error"

nativeResume(o) ==
    IF o.np.state # "Paused" THEN o
    ELSE LET run == Drive([o EXCEPT !.np.state = "Parsing", !.np.active = TRUE])
         IN  [run EXCEPT !.np.active = FALSE]

\* mutant: parse() that returns the native result without throwing on failure
parse_ignoreFailure(o, buf, isFinal) ==
    IF o.destroyed THEN [o |-> o, ret |-> "false", err |-> NoErr]
    ELSE [o |-> nativeParse(o, buf, isFinal), ret |-> "true", err |-> NoErr]

\* parse(buf, isFinal): the stream after the call, what the call returned
\* ("true", "false") or that it threw ("throw"), and the thrown value
parse(o, buf, isFinal) ==
    IF o.destroyed THEN [o |-> o, ret |-> "false", err |-> NoErr]
    ELSE LET after == nativeParse(o, buf, isFinal) IN
         IF parseOk(after) THEN [o |-> after, ret |-> "true", err |-> NoErr]
         ELSE [o |-> after, ret |-> "throw", err |-> getError(after)]

resume(o) == IF o.destroyed THEN o ELSE nativeResume(o)

(* ------------- XmlStream, revision with error snippets ----------------- *)
SnippetBefore == 10
SnippetAfter == 100

\* String.prototype.substring(start, end) on a 0-based string
substring(str, start, end) ==
    LET a == Max(0, Min(start, Len(str)))
        b == Max(0, Min(end, Len(str)))
    IN  SubSeq(str, Min(a, b) + 1, Max(a, b))

\* String.prototype.substr(start, length): a negative start counts from the
\* end of the string
substr(str, start, length) ==
    LET from == IF start < 0 THEN Max(Len(str) + start, 0)
                ELSE Min(start, Len(str))
        n == Min(Max(length, 0), Len(str) - from)
    IN  SubSeq(str, from + 1, from + n)

\* mutant: the byte index of the error taken relative to the current chunk
getError_rev_chunkRelative(o, chunk) ==
    LET message == getErrorMessage(o) IN
    IF message = NULL THEN NullError
    ELSE [code |-> "ERROR_XML_STREAM", message |-> message,
          lineNumber |-> getCurrentLineNumber(o),
          columnNumber |-> getCurrentColumnNumber(o),
          byteIndex |-> getCurrentByteIndex(o) - o._byteIndex,
          chunk |-> <<>>]

\* getError(chunk): position fields and the context snippet cut out of the
\* chunk of the current call (chunk.toString() keeps one character per byte
\* in the ASCII range)
getError_rev(o, chunk) ==
    LET message == getErrorMessage(o) IN
    IF message = NULL THEN NullError
    ELSE LET byteIndex == getCurrentByteIndex(o)
             chunkStr == chunk
             chunkIndex == byteIndex - o._byteIndex
         IN  [code |-> "ERROR_XML_STREAM", message |-> message,
              lineNumber |-> getCurrentLineNumber(o),
              columnNumber |-> getCurrentColumnNumber(o),
              byteIndex |-> byteIndex,
              chunk |-> substring(chunkStr, chunkIndex, chunkIndex - SnippetBefore)
                        \o <<" --->">> \o substr(chunkStr, chunkIndex, 1)
                        \o <<"<--- ">> \o substr(chunkStr, chunkIndex + 1, SnippetAfter)]

\* _parse(chunk, isFinal)
_parse(o, chunk, isFinal) ==
    IF o.destroyed THEN [o |-> o, ret |-> "false", err |-> NoErr]
    ELSE LET after == nativeParse(o, chunk, isFinal) IN
         IF parseOk(after)
         THEN [o |-> [after EXCEPT !._byteIndex = @ + Len(chunk)],
               ret |-> "true", err |-> NoErr]
         ELSE [o |-> after, ret |-> "throw", err |-> getError_rev(after, chunk)]

(* --------------------- stream callbacks (both classes) ----------------- *)
\* _write(chunk, encoding, callback) and _final(callback): the value handed
\* to the callback is the thrown error, or nothing
callbackOf(r) ==
    [o |-> r.o, ret |-> r.ret, err |-> r.err,
     cb |-> IF r.ret = "throw" THEN r.err ELSE NoErr]

\* mutant: _write that calls back without having parsed the chunk
_write_unparsed(o, chunk) == callbackOf(parse(o, <<>>, FALSE))

\* mutant: _write that calls back without the error it caught
_write_swallow(o, chunk) ==
    [callbackOf(parse(o, chunk, FALSE)) EXCEPT !.cb = NoErr]

_write(o, chunk) == callbackOf(parse(o, chunk, FALSE))

\* mutant: _final whose parse call does not say that the input has ended
_final_notFinal(o) == callbackOf(parse(o, <<>>, FALSE))

_final(o) == callbackOf(parse(o, <<>>, TRUE))
_write_rev(o, chunk) == callbackOf(_parse(o, chunk, FALSE))
_final_rev(o) == callbackOf(_parse(o, <<>>, TRUE))

(* ------------------------------- state --------------------------------- *)
VARIABLES
    doc,         \* the document being fed
    fed,         \* characters of doc handed over so far
    input,       \* characters passed to the native parser since it was last
                 \* constructed or reset
    empties,     \* empty chunks handed over so far
    resets,      \* reset() calls so far
    np,          \* the native parser
    events,      \* events received by the listeners for the current document
    destroyed,   \* Writable: this.destroyed
    errored,     \* Writable: the error handed to a write/final callback
    ended,       \* Writable: end() has been called
    _byteIndex,  \* revision: bytes of the chunks parsed successfully
    _encoding,   \* this._encoding
    mark,        \* parse events received when pause() or destroy() was
                 \* called, or -1
    last         \* the last call: operation, outcome, thrown value, callback value

vars == <<variant, api, pauseOn, doc, fed, input, empties, resets, np, events,
          destroyed, errored, ended, _byteIndex, _encoding, handler,
          emitClose, autoDestroy, mark, last>>

This ==
    [np |-> np, ev |-> events, destroyed |-> destroyed, mark |-> mark,
     pauseOn |-> pauseOn, _byteIndex |-> _byteIndex,
     _encoding |-> _encoding, handler |-> handler]

Store(o) ==
    /\ np' = o.np
    /\ events' = o.ev
    /\ destroyed' = o.destroyed
    /\ mark' = o.mark
    /\ _byteIndex' = o._byteIndex
    /\ _encoding' = o._encoding

Call(op, ret, err, cb) == [op |-> op, ret |-> ret, err |-> err, cb |-> cb]

\* the stream right after its constructor
NewStream(P) ==
    [np |-> NewParser, ev |-> <<>>, destroyed |-> FALSE, mark |-> -1,
     pauseOn |-> P, _byteIndex |-> 0, _encoding |-> NULL, handler |-> "none"]

\* new XmlStream(): the options left at their defaults
DefaultOptions ==
    /\ emitClose = TRUE
    /\ autoDestroy = TRUE

\* the stream right after its constructor, nothing fed yet
Constructed ==
    /\ fed = 0
    /\ input = <<>>
    /\ empties = 0
    /\ resets = 0
    /\ np = NewParser
    /\ events = <<>>
    /\ destroyed = FALSE
    /\ errored = NoErr
    /\ ended = FALSE
    /\ _byteIndex = 0
    /\ _encoding = NULL
    /\ mark = -1
    /\ last = Call("new", "none", NoErr, NoErr)

Init ==
    /\ variant \in {"lib", "rev"}
    /\ api \in {"stream", "direct"}
    /\ variant = "rev" => api = "stream"
    /\ pauseOn \in PauseSets
    /\ variant = "rev" => pauseOn = {}
    /\ handler = "none"
    /\ DefaultOptions
    /\ doc \in Docs
    /\ Constructed

\* the next chunk of n characters; a chunk may be empty
Chunk(n) == SubSeq(doc, fed + 1, fed + n)

Feed(n) ==
    /\ n = 0 => empties < MaxEmpty
    /\ fed' = fed + n
    /\ empties' = IF n = 0 THEN empties + 1 ELSE empties

(* ------------------------------ actions -------------------------------- *)
\* stream.write(chunk) reaching _write
Write ==
    /\ api = "stream" /\ ~ended /\ ~destroyed /\ errored = NoErr
    /\ \E n \in 0..(Len(doc) - fed) :
         /\ Feed(n)
         /\ LET r == IF variant = "lib" THEN _write(This, Chunk(n))
                     ELSE _write_rev(This, Chunk(n))
            IN  /\ Store(r.o)
                /\ errored' = r.cb
                /\ input' = input \o Chunk(n)
                /\ last' = Call("write", r.ret, r.err, r.cb)
    /\ UNCHANGED <<env, doc, resets, ended>>

\* stream.write(chunk) on an errored or destroyed stream: the Writable does
\* not call _write any more
WriteDropped ==
    /\ api = "stream" /\ ~ended /\ (destroyed \/ errored # NoErr)
    /\ \E n \in 1..(Len(doc) - fed) : Feed(n)
    /\ last' = Call("write", "none", NoErr, NoErr)
    /\ UNCHANGED <<env, doc, resets, ended, np, events, destroyed, errored,
                   _byteIndex, _encoding, mark, input>>

\* stream.end(): _final runs the final parse
End ==
    /\ api = "stream" /\ ~ended /\ ~destroyed /\ errored = NoErr
    /\ fed = Len(doc)
    /\ ended' = TRUE
    /\ LET r == IF variant = "lib" THEN _final(This) ELSE _final_rev(This)
       IN  /\ Store(r.o)
           /\ errored' = r.cb
           /\ last' = Call("final", r.ret, r.err, r.cb)
    /\ UNCHANGED <<env, doc, fed, input, empties, resets>>

\* stream.end() on an errored or destroyed stream: _final is not called
EndDropped ==
    /\ api = "stream" /\ ~ended /\ (destroyed \/ errored # NoErr)
    /\ ended' = TRUE
    /\ last' = Call("end", "none", NoErr, NoErr)
    /\ UNCHANGED <<env, doc, fed, input, empties, resets, np, events, destroyed,
                   errored, _byteIndex, _encoding, mark>>

\* mutant: the callback error is emitted after the stream has closed
errorOrDestroy_closeFirst(o, err) ==
    [o EXCEPT !.destroyed = TRUE,
              !.ev = @ \o <<Ev("close", <<>>), ErrEv(err)>>]

\* Writable on a callback error: 'error' is emitted once, and with
\* autoDestroy the stream is destroyed
errorOrDestroy(o, err) ==
    LET e == [o EXCEPT !.ev = @ \o <<ErrEv(err)>>] IN
    IF autoDestroy
    THEN [destroy(o) EXCEPT !.ev = @ \o <<ErrEv(err)>> \o closeEvents]
    ELSE e

\* the write or final callback received an error
onwriteError ==
    /\ errored # NoErr /\ ~destroyed /\ ~Emitted(events, "error")
    /\ Store(errorOrDestroy(This, errored))
    /\ UNCHANGED <<env, doc, fed, input, empties, resets, errored, ended, last>>

\* Writable after a successful _final: 'finish' is emitted, and with
\* autoDestroy the stream is destroyed
finish ==
    /\ ended /\ errored = NoErr /\ ~destroyed /\ ~Emitted(events, "finish")
    /\ LET o == [This EXCEPT !.ev = @ \o <<Ev("finish", <<>>)>>]
       IN  Store(IF autoDestroy
                 THEN [destroy(o) EXCEPT !.ev = @ \o closeEvents]
                 ELSE o)
    /\ UNCHANGED <<env, doc, fed, input, empties, resets, errored, ended, last>>

\* p.parse(chunk) called directly
ParseCall ==
    /\ api = "direct" /\ variant = "lib"
    /\ \E n \in 0..(Len(doc) - fed) :
         /\ Feed(n)
         /\ LET r == parse(This, Chunk(n), FALSE)
            IN  /\ Store(r.o)
                /\ input' = IF destroyed THEN input ELSE input \o Chunk(n)
                /\ last' = Call("parse", r.ret, r.err, NoErr)
    /\ UNCHANGED <<env, doc, resets, errored, ended>>

\* p.pause() called from outside a callback
PauseCall ==
    /\ variant = "lib"
    /\ pauseOn # {}
    /\ np.state # "Paused"
    /\ LET took == ~destroyed /\ stopResult(np)
           o == pause(This)
       IN  /\ Store([o EXCEPT !.mark = IF took THEN NParse(events) ELSE @])
           /\ last' = Call("pause", IF took THEN "true" ELSE "false", NoErr, NoErr)
    /\ UNCHANGED <<env, doc, fed, input, empties, resets, errored, ended>>

\* p.resume() called from a timer
ResumeCall ==
    /\ variant = "lib"
    /\ np.state = "Paused"
    /\ LET o == resume([This EXCEPT !.mark = -1])
       IN  /\ Store(o)
           /\ last' = Call("resume",
                           IF ~destroyed /\ parseOk(o) THEN "true" ELSE "false",
                           NoErr, NoErr)
    /\ UNCHANGED <<env, doc, fed, input, empties, resets, errored, ended>>

\* p.reset(), after which the harness feeds another document and records
\* its events in a new list
ResetCall ==
    /\ variant = "lib"
    /\ resets < MaxResets
    /\ resets' = resets + 1
    /\ LET o == reset(This)
       IN  /\ Store([o EXCEPT !.ev = <<>>, !.mark = -1])
           /\ last' = Call("reset", IF destroyed THEN "false" ELSE "true",
                           NoErr, NoErr)
    /\ doc' \in SecondDocs
    /\ fed' = 0
    /\ input' = IF destroyed THEN input ELSE <<>>
    /\ empties' = 0
    /\ UNCHANGED <<env, errored, ended>>

\* p.setEncoding(encoding) called from outside a callback
SetEncodingCall ==
    /\ \E enc \in Encodings :
         LET o == setEncoding(This, enc)
         IN  /\ Store(o)
             /\ last' = Call("setEncoding",
                             IF ~destroyed /\ o.np.encoding = enc
                             THEN "true" ELSE "false",
                             NoErr, NoErr)
    /\ UNCHANGED <<env, doc, fed, input, empties, resets, errored, ended>>

\* p.setUnknownEncoding(map) called from outside the notification
SetUnknownEncodingCall ==
    /\ \E h \in Handlers \ {"none", "ignore"} :
         LET o == setUnknownEncoding(This, TableOf(h))
         IN  /\ Store(o)
             /\ last' = Call("setUnknownEncoding",
                             IF ~destroyed /\ o.np.table = TableOf(h)
                             THEN "true" ELSE "false",
                             NoErr, NoErr)
    /\ UNCHANGED <<env, doc, fed, input, empties, resets, errored, ended>>

\* p.destroy() called from outside a callback
DestroyCall ==
    /\ ~destroyed
    /\ Store([destroy(This) EXCEPT !.mark = NParse(events)])
    /\ last' = Call("destroy", "none", NoErr, NoErr)
    /\ UNCHANGED <<env, doc, fed, input, empties, resets, errored, ended>>

\* Writable after destroy(): 'close' is emitted on a later tick
emitCloseNT ==
    /\ destroyed /\ mark >= 0 /\ closeEvents # <<>> /\ ~Emitted(events, "close")
    /\ events' = events \o closeEvents
    /\ UNCHANGED <<env, doc, fed, input, empties, resets, np, destroyed, errored,
                   ended, _byteIndex, _encoding, mark, last>>

Next ==
    \/ Write
    \/ WriteDropped
    \/ End
    \/ onwriteError
    \/ finish
    \/ ParseCall
    \/ PauseCall
    \/ ResumeCall
    \/ ResetCall

Spec == Init /\ [][Next]_vars

\* the documents with declarations, fed to lib/node-expat.js by a consumer
\* that never pauses
InitDecl ==
    /\ variant = "lib"
    /\ api \in {"stream", "direct"}
    /\ pauseOn = {}
    /\ doc \in DeclDocs
    /\ handler \in Handlers
    /\ doc[1] # XmlDeclWin => handler = "none"
    /\ DefaultOptions
    /\ Constructed

NextDecl ==
    \/ Write
    \/ WriteDropped
    \/ End
    \/ onwriteError
    \/ finish
    \/ ParseCall
    \/ SetEncodingCall
    \/ SetUnknownEncodingCall

SpecDecl == InitDecl /\ [][NextDecl]_vars

\* the documents with CDATA sections, fed by a consumer that never pauses
InitCdata ==
    /\ variant \in {"lib", "rev"}
    /\ api \in {"stream", "direct"}
    /\ variant = "rev" => api = "stream"
    /\ pauseOn = {}
    /\ handler = "none"
    /\ DefaultOptions
    /\ doc \in CdataDocs
    /\ Constructed

NextCdata ==
    \/ Write
    \/ WriteDropped
    \/ End
    \/ onwriteError
    \/ finish
    \/ ParseCall

SpecCdata == InitCdata /\ [][NextCdata]_vars

\* streams written and ended by the harness, constructed with any emitClose
\* and autoDestroy; the callbacks the Writable defers to the next tick run
\* eventually
InitEnd ==
    /\ variant \in {"lib", "rev"}
    /\ api = "stream"
    /\ pauseOn \in PauseSets
    /\ variant = "rev" => pauseOn = {}
    /\ handler = "none"
    /\ emitClose \in BOOLEAN
    /\ autoDestroy \in BOOLEAN
    /\ doc \in SampleDocs
    /\ Constructed

NextEnd ==
    \/ Write
    \/ WriteDropped
    \/ End
    \/ EndDropped
    \/ onwriteError
    \/ finish
    \/ PauseCall
    \/ ResumeCall

SpecEnd ==
    InitEnd /\ [][NextEnd]_vars /\ WF_vars(onwriteError) /\ WF_vars(finish)

\* every method called from outside (pause() and the encoding setters once
\* the stream is destroyed), and pause(), reset() or destroy() called by the
\* startElement listener
InitCtl ==
    /\ variant \in {"lib", "rev"}
    /\ api \in {"stream", "direct"}
    /\ variant = "rev" => api = "stream"
    /\ pauseOn \in PauseSets
    /\ handler \in CallbackCalls
    /\ handler # "none" => pauseOn # {}
    /\ variant = "rev" => (handler = "destroy" \/ pauseOn = {})
    /\ DefaultOptions
    /\ doc \in CtlDocs
    /\ Constructed

NextCtl ==
    \/ Write
    \/ WriteDropped
    \/ End
    \/ onwriteError
    \/ finish
    \/ ParseCall
    \/ ResumeCall
    \/ ResetCall
    \/ (destroyed /\ PauseCall)
    \/ (destroyed /\ SetEncodingCall)
    \/ (destroyed /\ SetUnknownEncodingCall)
    \/ DestroyCall
    \/ emitCloseNT

SpecCtl == InitCtl /\ [][NextCtl]_vars

(* --------------------------- reference runs ---------------------------- *)
\* _collapseTexts(evs): adjacent text events merged into one
RECURSIVE collapseTexts(_)
collapseTexts(evs) ==
    IF Len(evs) < 2 THEN evs
    ELSE LET rest == collapseTexts(Tail(evs)) IN
         IF evs[1].type = "text" /\ rest[1].type = "text"
         THEN <<Ev("text", evs[1].data \o rest[1].data)>> \o Tail(rest)
         ELSE <<evs[1]>> \o rest

\* the parse and error events of a list, texts collapsed
IsDelivered(e) == e.type \in ParseEventTypes \cup {"error"}
Delivered(ev) == collapseTexts(SelectSeq(ev, IsDelivered))
ParseEvents(ev) == collapseTexts(SelectSeq(ev, IsParseEv))

\* a newly constructed stream of class v given input d as a single chunk by
\* write(d), the listeners pausing on P: the call's outcome
WholeWrite(v, d, P) ==
    IF v = "lib" THEN parse(NewStream(P), d, FALSE)
    ELSE _parse(NewStream(P), d, FALSE)

\* ... and then end(), when withEnd
WholeRun(v, d, withEnd) ==
    LET w == WholeWrite(v, d, {}) IN
    IF w.ret = "throw" \/ ~withEnd THEN w
    ELSE IF v = "lib" THEN parse(w.o, <<>>, TRUE) ELSE _parse(w.o, <<>>, TRUE)

\* the events a stream delivers for that run: the parse events, then the
\* 'error' event when a callback received an error
WholeEvents(v, d, withEnd) ==
    LET r == WholeRun(v, d, withEnd) IN
    r.o.ev \o (IF r.ret = "throw" THEN <<ErrEv(r.err)>> ELSE <<>>)

(* ------------------------------ claims --------------------------------- *)
\* every chunk has been handed over and every outcome has been signalled
Settled ==
    /\ fed = Len(doc)
    /\ np.state # "Paused"
    /\ errored # NoErr => destroyed

\* the input the native parser has consumed
Consumed == SubSeq(input, 1, np.bytes)

\* C1: for every document and every split of it into chunks, the delivered
\* events, adjacent texts merged, are those delivered when the document is
\* fed as a single chunk, an error event included.
C1_ChunkSplitSameEvents ==
    (api = "stream" /\ pauseOn = {} /\ resets = 0 /\ Settled)
        => Delivered(events) = Delivered(WholeEvents(variant, doc, ended))

\* C1 where it goes wrong: a document split before its offending byte has
\* ended in an error event
C1_SplitErrorReported ==
    /\ variant = "rev" /\ Settled /\ errored # NoErr
    /\ errored.message = ErrMalformed
    /\ _byteIndex > 0

\* C1 for the parse events only, which do not depend on the split
C1_ParseEventsSplitInvariant ==
    (pauseOn = {} /\ resets = 0 /\ Settled)
        => ParseEvents(events) = ParseEvents(WholeEvents(variant, doc, ended))

\* C1 for the class without snippets (lib/node-expat.js)
C1_LibOnly ==
    variant = "lib" => C1_ChunkSplitSameEvents

\* C2: pausing on start-element events and resuming later never drops,
\* duplicates or reorders an event: once resume() has been called with the
\* whole input handed over and no pause requested since, the events
\* delivered are exactly those of an unpaused run of the same input.
C2_PauseResumeSameEvents ==
    (resets = 0 /\ fed = Len(doc) /\ last.op = "resume" /\ mark = -1)
        => ParseEvents(events) = ParseEvents(WholeEvents(variant, doc, ended))

\* C2 where it goes wrong: the stream was ended while the parser was
\* paused, and resume() has been called since
C2_ResumedAfterEnd ==
    /\ last.op = "resume" /\ ended /\ destroyed
    /\ fed = Len(doc) /\ mark = -1

\* C2 as long as the stream has not been destroyed before resume()
C2_PauseResumeSameEventsNotDestroyed ==
    (resets = 0 /\ fed = Len(doc) /\ last.op = "resume" /\ mark = -1
        /\ ~destroyed)
        => ParseEvents(events) = ParseEvents(WholeEvents(variant, doc, ended))

\* C3: when the listener has called pause() from inside an event callback, no
\* further parse event is delivered, not even one derived from the rest of
\* the same chunk or the same tag, until resume() is called.
C3_NoEventWhilePaused ==
    mark # -1 => NParse(events) = mark

\* C3 witness: paused inside a callback with an event of the same tag, or
\* input of the same chunk, still undelivered
C3_PausedMidChunk ==
    /\ mark # -1 /\ np.state = "Paused"
    /\ events # <<>> /\ events[Len(events)].type = "startElement"
    /\ np.pend # <<>> /\ np.buf # <<>>

\* a document a newly constructed parser accepts to its end
WellFormed(d) == WholeRun("lib", d, TRUE).ret = "true"

\* C4: after reset(), parsing a well-formed document yields exactly the
\* events a newly constructed parser yields for it, whatever happened before
\* the reset: a complete document, an incomplete one, or one that ended in an
\* error.
C4_ResetLikeNew ==
    (resets > 0 /\ ~ended /\ pauseOn = {} /\ WellFormed(doc)
        /\ fed = Len(doc) /\ (errored # NoErr => destroyed))
        => Delivered(events) = Delivered(WholeEvents(variant, doc, FALSE))

\* C4 where it goes wrong: the earlier document ended in an error reported
\* through write(), reset() was called and a well-formed document written
C4_ResetAfterWriteError ==
    /\ resets > 0 /\ api = "stream" /\ errored # NoErr /\ ~ended
    /\ WellFormed(doc) /\ fed = Len(doc)

\* C4 for a parser driven by parse() calls, where an error destroys nothing
C4_ResetLikeNewDirect ==
    api = "direct" => C4_ResetLikeNew

\* a step in which parse()/_parse() is called: by write, by end or directly
ParseStep == Write \/ End \/ ParseCall

\* C5: once a parse call has failed, every later parse call delivers no
\* parse event and reports failure, for any input, until reset().
C5_ErrorIsTerminal ==
    [][(np.state = "Error" /\ ParseStep)
         => /\ NParse(events') = NParse(events)
            /\ last'.ret \in {"throw", "false"}
            /\ np'.state = "Error"
            /\ getCurrentState([np |-> np']) = getCurrentState([np |-> np])]_vars

\* C5 witness: a parse call made after the failure has thrown
C5_ParsedAfterFailure ==
    /\ np.state = "Error" /\ last.op = "parse" /\ last.ret = "throw"
    /\ Len(input) > np.bytes + Len(np.buf)

\* C6: a parse call on a stream that is not destroyed returns true exactly
\* when the underlying parse hit no error; otherwise it throws a non-null
\* Error with code ERROR_XML_STREAM, which a stream write or end hands to the
\* write/final callback.
C6_FailureIsReported ==
    (last.op \in {"write", "final", "parse"} /\ last.ret # "none")
        => /\ last.ret \in {"true", "throw"}
           /\ last.ret = "true" <=> getErrorMessage(This) = NULL
           /\ last.ret = "true" => last.err = NoErr
           /\ last.ret = "throw"
                => /\ last.err # NullError
                   /\ last.err.code = "ERROR_XML_STREAM"
                   /\ last.err.message = getErrorMessage(This)
           /\ last.op \in {"write", "final"}
                => /\ last.cb = (IF last.ret = "throw" THEN last.err ELSE NoErr)
                   /\ errored = last.cb

\* C6 witness: a write whose parse failed has handed the error to its callback
C6_WriteCallbackGotError ==
    /\ last.op = "write" /\ last.ret = "throw"
    /\ last.cb.code = "ERROR_XML_STREAM" /\ errored = last.cb

\* a newly constructed parser rejects input d on its own
Rejects(d) == WholeWrite("lib", d, {}).ret = "throw"

\* the error most recently reported to the caller: handed to a stream
\* callback, or thrown by a direct parse call
Reported ==
    IF errored # NoErr THEN errored
    ELSE IF last.ret = "throw" THEN last.err
    ELSE NoErr

\* offset k of input d is its offending byte: the k bytes before it are
\* accepted on their own, and rejected once it is appended
Offending(d, k) ==
    /\ k \in 0..(Len(d) - 1)
    /\ ~Rejects(SubSeq(d, 1, k))
    /\ Rejects(SubSeq(d, 1, k + 1))

\* C7: a malformed token is reported by the parse call that supplies the
\* offending byte, not at end of input: the events of the well-formed prefix
\* are delivered first, then exactly one error, and no parse event after it.
C7_ErrorAtOffendingByte ==
    (pauseOn = {} /\ resets = 0 /\ ~ended)
        => /\ Rejects(input) <=> Reported # NoErr
           /\ api = "stream" => (Rejects(input) <=> errored # NoErr)
           /\ Rejects(input)
                => /\ Offending(input, np.bytes)
                   /\ ParseEvents(events)
                        = ParseEvents(WholeWrite(variant, Consumed, {}).o.ev)
           /\ (errored # NoErr /\ destroyed)
                => \E i \in 1..Len(events) : events[i].type = "error"
           /\ \A i \in 1..Len(events) :
                events[i].type = "error"
                    => /\ events[i].err = errored
                       /\ \A j \in 1..Len(events) :
                            j # i => /\ events[j].type # "error"
                                     /\ IsParseEv(events[j]) => j < i

\* C7 witness: parse events of a prefix, then the error event, then more
\* input written without effect
C7_ErrorAfterPrefixEvents ==
    /\ Len(events) > 3 /\ events[1].type = "startElement"
    /\ events[3].type = "error" /\ events[3].err.message = ErrMalformed
    /\ fed > Len(input)

\* C8: the line, column and byte index carried by a reported error are those
\* of the offending byte counted from the start of the document, and the
\* three counters still have those values after the error.
C8_ErrorPosition ==
    (resets = 0 /\ Reported # NoErr /\ Reported.message # ErrIncomplete)
        => /\ Offending(input, Reported.byteIndex)
           /\ Reported.lineNumber = 1 + CountLF(input, Reported.byteIndex)
           /\ Reported.columnNumber = CharsSinceLF(input, Reported.byteIndex)
           /\ getCurrentLineNumber(This) = Reported.lineNumber
           /\ getCurrentColumnNumber(This) = Reported.columnNumber
           /\ getCurrentByteIndex(This) = Reported.byteIndex

\* C8 witness: an error on the second line, in a chunk that is not the first
C8_ErrorOnSecondLine ==
    /\ variant = "rev" /\ errored # NoErr /\ errored.message = ErrMalformed
    /\ errored.lineNumber = 2 /\ errored.columnNumber = 1
    /\ errored.byteIndex = 5 /\ _byteIndex > 0

\* the snippet the input calls for: up to SnippetBefore characters before
\* offset k, the byte at k between the markers, up to SnippetAfter after it
InputSnippet(d, k) ==
    SubSeq(d, Max(k - SnippetBefore, 0) + 1, k)
        \o <<" --->">> \o SubSeq(d, k + 1, Min(k + 1, Len(d)))
        \o <<"<--- ">> \o SubSeq(d, k + 2, Min(k + 1 + SnippetAfter, Len(d)))

\* C9: the context snippet of a reported error is made of up to 10 input
\* characters before the failing byte, that byte between markers, and up to
\* 100 input characters after it, however the input was split into chunks.
C9_SnippetFromInput ==
    (variant = "rev" /\ last.op = "write" /\ last.ret = "throw"
        /\ last.err.message # ErrIncomplete)
        => last.err.chunk = InputSnippet(input, last.err.byteIndex)

\* C9 where it goes wrong: the failing byte is the first of a later chunk
C9_ErrorAtChunkStart ==
    /\ variant = "rev" /\ last.op = "write" /\ last.ret = "throw"
    /\ _byteIndex > 0 /\ last.err.byteIndex = _byteIndex

\* C9 for an error in the first chunk, where the chunk is the input
C9_SnippetFirstChunk ==
    _byteIndex = 0 => C9_SnippetFromInput

\* C10: the line number is 1 on a new parser and, after any sequence of
\* chunks, 1 plus the number of line feeds consumed since construction or the
\* last reset, wherever the chunk boundaries fall.
C10_LineNumber ==
    /\ getCurrentLineNumber(This) = 1 + CountLF(input, np.bytes)
    /\ (np.state \in {"Ready", "Parsing"} /\ errored = NoErr)
            => np.bytes = Len(input)

\* C10 witness: the third line reached at the end of a document whose
\* elements and text lie between the line feeds
C10_ThirdLine ==
    /\ getCurrentLineNumber(This) = 3 /\ Len(input) > 2
    /\ input[1] = LF /\ input[Len(input)] = LF
    /\ variant = "rev" /\ _byteIndex = Len(input) /\ last.op = "write"
    /\ Len(events) = 3

\* C11: the column number is 0 on a new parser, 0 after every consumed line
\* feed, and otherwise the number of characters consumed since the last line
\* feed or the start, counted over all chunks and not from the start of the
\* current chunk.
C11_ColumnNumber ==
    /\ getCurrentColumnNumber(This) = CharsSinceLF(input, np.bytes)
    /\ input = <<>> => getCurrentColumnNumber(This) = 0
    /\ (np.bytes > 0 /\ input[np.bytes] = LF) => getCurrentColumnNumber(This) = 0
    /\ (np.state \in {"Ready", "Parsing"} /\ errored = NoErr /\ last.ret # "throw")
            => np.bytes = Len(input)

\* C11 witness: column 1 on the second line after an error at the first byte
\* of a chunk, the character counted having come with an earlier chunk
C11_ColumnAcrossChunks ==
    /\ variant = "rev" /\ last.op = "write" /\ last.ret = "throw"
    /\ getCurrentColumnNumber(This) = 1 /\ getCurrentLineNumber(This) = 2
    /\ _byteIndex = np.bytes /\ input[np.bytes] = "<"

\* C12: the byte index is -1 on a new parser and after any number of empty
\* chunks; once n >= 1 bytes have been consumed, over any chunking, it is n.
C12_ByteIndex ==
    /\ input = <<>> /\ np.state \in {"Ready", "Parsing"}
            => getCurrentByteIndex(This) = -1
    /\ (np.state \in {"Ready", "Parsing"} /\ errored = NoErr /\ last.ret # "throw"
            /\ input # <<>>)
            => getCurrentByteIndex(This) = Len(input)
    /\ np.bytes >= 1 => getCurrentByteIndex(This) = np.bytes

\* C12 witness: an empty chunk written, the byte index still -1
C12_EmptyChunkWritten ==
    /\ empties > 0 /\ last.op \in {"write", "parse"} /\ last.ret = "true"
    /\ input = <<>> /\ getCurrentByteIndex(This) = -1

\* the number of bytes of the input the parser has consumed: all of it
\* while it parses, all but the buffered rest while paused, and the bytes
\* before the offending one after an error
BytesConsumed(n) ==
    /\ n \in 0..Len(input)
    /\ np.state \in {"Ready", "Parsing", "Finished"} => n = Len(input)
    /\ np.state = "Paused" => n = Len(input) - Len(np.buf)
    /\ (np.state = "Error" /\ np.error # ErrIncomplete) => Offending(input, n)
    /\ (np.state = "Error" /\ np.error = ErrIncomplete) => ~Rejects(SubSeq(input, 1, n))

\* a reset() that took effect happens in this step
ResetStep == resets' # resets /\ ~destroyed

\* C13 as stated: in every reachable state the byte offset equals the number
\* of bytes consumed since construction or the last reset, and between two
\* resets it never decreases.
C13_ByteOffsetIsBytesConsumed ==
    /\ [](BytesConsumed(getCurrentByteIndex(This)))
    /\ [][~ResetStep
            => getCurrentByteIndex(This)' >= getCurrentByteIndex(This)]_vars

\* C13 amended: the byte offset is -1 as long as no byte has been consumed
\* and no error raised; from the first consumed byte on it equals the number
\* of bytes consumed since construction or the last reset; between two resets
\* it never decreases.
C13_ByteOffsetAfterFirstByte ==
    /\ []((np.bytes = 0 /\ np.state # "Error") => getCurrentByteIndex(This) = -1)
    /\ [](np.bytes > 0 => BytesConsumed(getCurrentByteIndex(This)))
    /\ [][~ResetStep
            => getCurrentByteIndex(This)' >= getCurrentByteIndex(This)]_vars

\* C13 witness: a second document parsed after a reset that took effect, the
\* byte offset counting the bytes of that document only
C13_CountedFromReset ==
    /\ resets > 0 /\ ~destroyed /\ last.op = "parse" /\ last.ret = "true"
    /\ getCurrentByteIndex(This) = Len(input) /\ Len(input) = 4

\* the names wrongly closed, as a stack
Unbalanced == << <<"!">> >>

\* the stack of open element names after the start and end element events
\* of ev, starting from the stack open
RECURSIVE OpenAfter(_, _)
OpenAfter(ev, open) ==
    IF ev = <<>> \/ open = Unbalanced THEN open
    ELSE LET e == Head(ev) IN
         IF e.type = "startElement"
         THEN OpenAfter(Tail(ev), Append(open, e.data))
         ELSE IF e.type = "endElement"
         THEN IF open # <<>> /\ open[Len(open)] = e.data
              THEN OpenAfter(Tail(ev), SubSeq(open, 1, Len(open) - 1))
              ELSE Unbalanced
         ELSE OpenAfter(Tail(ev), open)

IsStart(e) == e.type = "startElement"
IsEnd(e) == e.type = "endElement"

\* C14: every endElement names the most recently started element not yet
\* ended; an end tag with another name produces an error instead of an
\* endElement; when the parser has completed a document no element is left
\* open and as many endElement as startElement events were delivered.
C14_StackDiscipline ==
    /\ OpenAfter(events, <<>>) # Unbalanced
    /\ resets = 0 => OpenAfter(events \o np.pend, <<>>) = np.stack
    /\ np.error = ErrMismatch
            => /\ np.state = "Error" /\ np.stack # <<>>
               /\ np.acc # np.stack[Len(np.stack)]
               /\ resets = 0
                    => /\ OpenAfter(events, <<>>) = np.stack
                       /\ SubSeq(input, np.bytes - Len(np.acc) - 1, np.bytes)
                            = <<"<", "/">> \o np.acc
    /\ np.state = "Finished"
            => /\ np.stack = <<>>
               /\ OpenAfter(events, <<>>) = <<>>
               /\ Len(SelectSeq(events, IsStart)) = Len(SelectSeq(events, IsEnd))

\* C14 witness: a completed document with an element nested in another
C14_NestedCompleted ==
    /\ np.state = "Finished" /\ NParse(events) = 4
    /\ events[2].type = "startElement" /\ events[3].type = "endElement"
    /\ events[1].data # events[2].data

\* the document declares an encoding the engine cannot decode, and the
\* declaration has been handed to the parser
UnknownDeclared == input # <<>> /\ input[1] = XmlDeclWin /\ np.encoding = NULL

\* the bytes after the declaration, each decoded through table t
DecodedTail(t) == [i \in 1..(Len(input) - 1) |-> t[input[i + 1]]]

\* C15: when the declaration names an encoding the engine cannot decode, the
\* unknownEncoding notification fires synchronously with that name, and when
\* the handler installs a table during it, every later byte b of the
\* document, of the current and of all following chunks, is decoded to
\* table[b].
C15_TableDecodesLaterBytes ==
    (UnknownDeclared /\ handler \in {"T1", "T2"})
        => /\ Len(events) >= 2
           /\ events[1].type = "xmlDecl"
           /\ events[2] = Ev("unknownEncoding", <<XmlDecls[XmlDeclWin]>>)
           /\ \A i \in 3..Len(events) : events[i].type # "unknownEncoding"
           /\ ParseEvents(events)
                = ParseEvents(WholeWrite("lib", DecodedTail(TableOf(handler)), {}).o.ev)
           /\ ~ended => getErrorMessage(This) = NULL

\* C15 witness: the second raw byte, written in a chunk of its own after the
\* chunk of the first, delivered decoded
C15_LaterChunkDecoded ==
    /\ UnknownDeclared /\ handler = "T1"
    /\ Len(events) = 5
    /\ events[4] = Ev("text", <<"a">>) /\ events[5] = Ev("text", <<"b">>)

\* C16: when an unrecognized encoding is declared and no table has been
\* installed by the time the notification returns, or no handler is
\* registered, the parse call fails with the unknown-encoding error and the
\* parser is in the Error state, with nothing decoded after the declaration.
C16_NoTableFails ==
    (UnknownDeclared /\ handler \in {"none", "ignore"})
        => /\ np.state = "Error"
           /\ getErrorMessage(This) = ErrUnknownEncoding
           /\ np.bytes = 1 /\ NParse(events) = 0
           /\ api = "stream" => errored.message = ErrUnknownEncoding
           /\ last.op \in {"write", "parse"}
                => (last.ret = "none"
                    \/ (last.ret = "throw" /\ last.err.message = ErrUnknownEncoding))
           /\ handler = "ignore"
                => events[2] = Ev("unknownEncoding", <<XmlDecls[XmlDeclWin]>>)
           /\ handler = "none"
                => \A i \in 1..Len(events) : events[i].type # "unknownEncoding"

\* C16 witness: the handler returned without a table, the declaration's
\* parse call has thrown, bytes of its chunk left undecoded
C16_HandlerInstalledNothing ==
    /\ UnknownDeclared /\ handler = "ignore"
    /\ last.op = "parse" /\ last.ret = "throw"
    /\ Len(input) > 1 /\ Len(events) = 2

\* a setter of the decoding policy is called from outside the notification
SetStep == SetEncodingCall \/ SetUnknownEncodingCall

\* a new stream configured as this one was before parsing started
Configured ==
    [NewStream({}) EXCEPT !.np.encoding = np.encoding, !.handler = handler]

\* C17: a setUnknownEncoding or setEncoding call made outside the
\* notification after parsing of the document has started leaves the decoding
\* of all remaining bytes unchanged: the decoding state is as before the
\* call, and the events are those of the document parsed without such calls.
C17_DecodingFixedAfterStart ==
    /\ [][(SetStep /\ np.state # "Ready")
            => /\ np'.table = np.table
               /\ np'.hasTable = np.hasTable
               /\ np'.encoding = np.encoding
               /\ np'.asking = np.asking]_vars
    /\ [](ParseEvents(events)
            = ParseEvents(parse(Configured, input, FALSE).o.ev))

\* C17 witness: setEncoding called after the declaration was parsed, then
\* raw bytes parsed and delivered decoded through the installed table
C17_SetAfterStart ==
    /\ _encoding # NULL /\ np.encoding = NULL /\ np.hasTable
    /\ last.op \in {"write", "parse"} /\ last.ret = "true"
    /\ events[Len(events)].type = "text"

\* the entity declarations handed to the parser, in declaration order
IsEntityDeclUnit(u) == u \in DOMAIN EntityDecls
DeclsIn(d) ==
    LET units == SelectSeq(d, IsEntityDeclUnit)
    IN  [i \in 1..Len(units) |-> EntityDecls[units[i]]]

Has(v, c) == \E i \in 1..Len(v) : v[i] = c
FirstIndexOf(v, c) ==
    CHOOSE i \in 1..Len(v) : v[i] = c /\ \A j \in 1..(i - 1) : v[j] # c

\* the name of the first reference in v
FirstName(v) == SubSeq(v, FirstIndexOf(v, "&") + 1, FirstIndexOf(v, ";") - 1)

\* the names referenced in v
NamesIn(v) ==
    { SubSeq(v, i + 1, j - 1) :
        <<i, j>> \in { p \in (1..Len(v)) \X (1..Len(v)) :
                         /\ p[1] < p[2] /\ v[p[1]] = "&" /\ v[p[2]] = ";"
                         /\ \A k \in (p[1] + 1)..(p[2] - 1) : v[k] # ";" } }

\* the names reached from the names S through at most k values
RECURSIVE Reach(_, _, _)
Reach(decls, S, k) ==
    IF k = 0 THEN S
    ELSE Reach(decls,
               S \cup UNION { NamesIn(ValueOf(decls, n)) :
                                n \in { m \in S : IsDeclared(decls, m) } },
               k - 1)

\* the value of n references n, directly or through other entities, or an
\* entity that does
SelfReferring(decls, n) ==
    IsDeclared(decls, n) /\ n \in Reach(decls, NamesIn(ValueOf(decls, n)), Len(decls))
Cyclic(decls, n) ==
    \E m \in Reach(decls, {n}, Len(decls)) : SelfReferring(decls, m)

\* v with its first reference replaced by the declared value, again and
\* again until no reference is left
RECURSIVE Substitute(_, _, _)
Substitute(decls, v, steps) ==
    IF steps = 0 \/ ~Has(v, "&") THEN v
    ELSE LET i == FirstIndexOf(v, "&")
             j == FirstIndexOf(v, ";")
         IN  Substitute(decls,
                        SubSeq(v, 1, i - 1) \o ValueOf(decls, FirstName(v))
                            \o SubSeq(v, j + 1, Len(v)),
                        steps - 1)

\* some name is declared more than once
Redeclared(decls) ==
    \E i, j \in 1..Len(decls) : i < j /\ decls[i].name = decls[j].name

\* the characters of all text events of ev
IsText(e) == e.type = "text"
AllText(ev) ==
    LET t == collapseTexts(SelectSeq(ev, IsText))
    IN  IF t = <<>> THEN <<>> ELSE t[1].data

\* the content of the root element handed to the parser so far
Content == SubSeq(input, FirstIndexOf(input, ">") + 1, Len(input))

\* a document with a DOCTYPE whose reference has been handed over complete
ReferenceGiven ==
    /\ input # <<>> /\ input[1] = DoctypeOpen
    /\ Has(input, ";")

IsEntityDeclEv(e) == e.type = "entityDecl"

\* C18: the text delivered for an entity reference is the entity's declared
\* value with every reference inside it expanded recursively; with a = "ba",
\* b = "&a;&a;", ab = "&b;&b;" a reference to ab yields babababa, preceded by
\* one entityDecl event per declaration in declaration order, each carrying
\* the unexpanded declared value.
C18_ReferenceExpanded ==
    LET decls == DeclsIn(input) IN
    /\ (input # <<>> /\ input[1] = DoctypeOpen /\ np.state # "Error")
            => /\ SelectSeq(events, IsEntityDeclEv)
                    = [i \in 1..Len(decls)
                         |-> Ev("entityDecl", <<decls[i].name, decls[i].value>>)]
               /\ \A i, j \in 1..Len(events) :
                    (IsEntityDeclEv(events[i]) /\ IsParseEv(events[j])) => i < j
    /\ (ReferenceGiven /\ ~Redeclared(decls) /\ ~Cyclic(decls, FirstName(Content)))
            => /\ getErrorMessage(This) = NULL \/ ended
               /\ AllText(events) = Substitute(decls, Content, 2 ^ (Len(decls) + 1))
               /\ ~Has(AllText(events), "&")
               /\ Len(decls) = 3
                    => AllText(events) = <<"b", "a", "b", "a", "b", "a", "b", "a">>

\* C18 witness: the three entityDecl events, the start tag, then the text of
\* the fourfold expansion
C18_FourfoldExpansion ==
    /\ Len(events) = 5
    /\ events[3] = Ev("entityDecl", <<<<"a", "b">>, <<"&", "b", ";", "&", "b", ";">>>>)
    /\ events[5] = Ev("text", <<"b", "a", "b", "a", "b", "a", "b", "a">>)

\* C19: expanding a reference to an entity whose value references itself,
\* directly or through other entities, terminates: the parse call fails with
\* an error, the parser enters the Error state, and never more entities are
\* under expansion at once than are declared.
C19_CycleFails ==
    LET decls == DeclsIn(input) IN
    /\ np.depth <= Len(decls)
    /\ (ReferenceGiven /\ Cyclic(decls, FirstName(Content)))
            => /\ np.state = "Error"
               /\ getErrorMessage(This) = ErrRecursive
               /\ np.bytes = FirstIndexOf(input, ";") - 1
               /\ AllText(events) = SubSeq(Content, 1, FirstIndexOf(Content, "&") - 1)
               /\ api = "stream" => errored.message = ErrRecursive
               /\ last.op \in {"write", "parse"}
                    => (last.ret = "none"
                        \/ (last.ret = "throw" /\ last.err.message = ErrRecursive))

\* C19 witness: a cycle through two entities has been reported as an error
C19_IndirectCycleReported ==
    /\ np.depth = 2 /\ errored.message = ErrRecursive /\ destroyed
    /\ Len(DeclsIn(input)) = 2

\* C20: when an entity name is declared more than once, the first
\* declaration's value is the one used by every later reference to the name;
\* a redeclaration never changes the entity table.
C20_FirstDeclarationWins ==
    /\ [][\A i \in 1..Len(np.entities) :
              /\ Len(np'.entities) >= i
              /\ np'.entities[i] = np.entities[i]]_vars
    /\ [](\A i, j \in 1..Len(np.entities) :
              np.entities[i].name = np.entities[j].name => i = j)
    /\ [](LET decls == DeclsIn(input) IN
           (ReferenceGiven /\ Redeclared(decls)
                /\ ~Cyclic(decls, FirstName(Content)))
              => /\ getErrorMessage(This) = NULL \/ ended
                 /\ AllText(events)
                      = Substitute(decls, Content, 2 ^ (Len(decls) + 1)))

\* C20 witness: a reference to a name declared twice has delivered the
\* first value
C20_RedeclaredReferenced ==
    /\ ReferenceGiven /\ Redeclared(DeclsIn(input))
    /\ Len(np.entities) = 1
    /\ AllText(events) = <<"b", "a">>

\* the events the harness compares: the element, text and CDATA marker
\* events, adjacent texts merged
IsContentEv(e) ==
    e.type \in ParseEventTypes \cup {"startCdata", "endCdata"}
ContentEvents(ev) == collapseTexts(SelectSeq(ev, IsContentEv))

\* the events between a startCdata and the next endCdata are text events,
\* and there is at least one
RECURSIVE CdataFramed(_, _)
CdataFramed(ev, texts) ==
    IF ev = <<>> THEN TRUE
    ELSE IF Head(ev).type = "startCdata" THEN CdataFramed(Tail(ev), 0)
    ELSE IF Head(ev).type = "endCdata"
    THEN texts > 0 /\ CdataFramed(Tail(ev), -1)
    ELSE IF texts >= 0
    THEN Head(ev).type = "text" /\ CdataFramed(Tail(ev), texts + 1)
    ELSE CdataFramed(Tail(ev), texts)

Count(ev, type) == Len(SelectSeq(ev, LAMBDA e : e.type = type))

\* at most one 'close' and one 'error'; after 'error' nothing but 'close' is
\* emitted, and no 'error' after 'close'; a stream whose callback got an
\* error does not close without an 'error'
ErrorThenClose ==
    /\ Count(events, "close") <= 1
    /\ Count(events, "error") <= 1
    /\ \A i, j \in 1..Len(events) :
         /\ (i < j /\ events[i].type = "error") => events[j].type = "close"
         /\ (i < j /\ events[i].type = "close") => events[j].type # "error"
    /\ (errored # NoErr /\ Emitted(events, "close")) => Emitted(events, "error")

C23_EndAndClose ==
    (DefaultOptions /\ pauseOn = {} /\ WellFormed(doc) /\ ended)
        ~> /\ Emitted(events, "end") /\ Emitted(events, "close")
           /\ Count(events, "startElement") = Count(events, "endElement")
           /\ Count(events, "startElement") > 0

\* C23 where it goes wrong: the stream has finished and closed with its
\* elements balanced, and no 'end' was emitted
C23_ClosedWithoutEnd ==
    /\ DefaultOptions /\ pauseOn = {} /\ WellFormed(doc) /\ ended
    /\ np.state = "Finished" /\ destroyed
    /\ Emitted(events, "finish") /\ Emitted(events, "close")
    /\ Count(events, "startElement") = Count(events, "endElement")
    /\ Count(events, "startElement") > 0
    /\ ~Emitted(events, "end")

\* does a newly constructed parser fail on this input, parsed in one call
\* and, when final, followed by the final call
FailsOn(d, final) == WholeRun("lib", d, final).ret = "throw"

\* C24: pause() called while the parser is Ready, Finished or in Error
\* changes nothing in the parser and returns false, while on a parser that
\* is Parsing it suspends it; and no parse call fails that would not fail
\* on a parser that was never paused.
C24_PauseOnlyWhileParsing ==
    /\ [][(PauseCall /\ np.state \in {"Ready", "Finished", "Error"})
            => np' = np /\ last'.ret = "false"]_vars
    /\ [][(PauseCall /\ np.state = "Parsing" /\ ~destroyed)
            => np' = [np EXCEPT !.state = "Paused"] /\ last'.ret = "true"]_vars
    /\ [](last.ret = "throw" => FailsOn(input, last.op = "final"))

\* C24's case: pause() has just been called on a parser in Error that is
\* not destroyed
C24_PausedInError ==
    /\ last.op = "pause" /\ last.ret = "false"
    /\ np.state = "Error" /\ ~destroyed

\* the parse events delivered for this input when no listener calls a method
Undisturbed(d) == ParseEvents(WholeWrite("lib", d, {}).o.ev)

\* reset() called from outside a callback on a parser that is Ready, Paused,
\* Finished or in Error leaves it Ready as constructed, with no last error,
\* and returns true
ResetSucceeds ==
    (ResetCall /\ np.state \in {"Ready", "Paused", "Finished", "Error"})
        => /\ np' = NewParser
           /\ getError([This EXCEPT !.np = np']) = NullError
           /\ last'.ret = "true"

\* a parse call that follows a reset() and completes a well-formed document
\* does not fail
ParsesAfterReset ==
    (resets > 0 /\ last.op \in {"parse", "write", "final"} /\ last.ret # "none"
        /\ pauseOn = {} /\ WellFormed(doc) /\ fed = Len(doc))
        => last.ret = "true"

\* reset() called by the startElement listener changes nothing: the events
\* delivered are those delivered when no listener calls a method
CallbackResetRejected ==
    (handler = "reset" /\ resets = 0) => ParseEvents(events) = Undisturbed(input)

\* C25: reset() succeeds from Ready, Paused, Finished and Error and leaves
\* the parser Ready with no last error, so that the next parse of a
\* well-formed document succeeds; reset() called from inside an event
\* callback is rejected and leaves the parse in progress as it is.
C25_ResetValid ==
    /\ [][ResetSucceeds]_vars
    /\ []ParsesAfterReset
    /\ []CallbackResetRejected

\* C25 for the streams that are not destroyed
C25_ResetValidNotDestroyed ==
    /\ [][~destroyed => ResetSucceeds]_vars
    /\ [](~destroyed => ParsesAfterReset)
    /\ []CallbackResetRejected

\* C25 where it goes wrong: reset() has just returned false for a stream
\* whose failed write destroyed it, the parser still in Error
C25_ResetRejectedAfterError ==
    /\ last.op = "reset" /\ last.ret = "false"
    /\ destroyed /\ np.state = "Error" /\ np.error # NULL

\* C25's other case: the listener has called reset() during a parse call,
\* and the events after that startElement were still delivered
C25_ResetFromCallback ==
    /\ handler = "reset" /\ resets = 0 /\ ~destroyed
    /\ NParse(events) > 1
    /\ events[1].type = "startElement" /\ events[1].data \in pauseOn

\* no step of a destroyed stream delivers a parse event
QuietOnceDestroyed == destroyed => NParse(events') <= NParse(events)

\* the parse events delivered are those delivered when destroy() was called
StoppedAtDestroy == (destroyed /\ mark >= 0) => NParse(events) = mark

\* C29: once destroy() has been called no further parse event is delivered,
\* also when it was called by a listener during a parse call: the events
\* for the rest of the chunk are not delivered.
C29_DestroyStopsParser ==
    /\ [][QuietOnceDestroyed]_vars
    /\ []StoppedAtDestroy

\* C29 for destroy() called from outside a callback
C29_DestroyBetweenCalls ==
    /\ [][QuietOnceDestroyed]_vars
    /\ [](handler # "destroy" => StoppedAtDestroy)

\* C29 where it goes wrong: the listener called destroy() on a startElement
\* and the endElement of the same chunk was delivered after it
C29_EventAfterDestroy ==
    /\ variant = "lib" /\ handler = "destroy" /\ destroyed /\ mark >= 0
    /\ NParse(events) > mark
    /\ events[mark].type = "startElement" /\ events[mark].data \in pauseOn
    /\ events[mark + 1].type = "endElement"

\* a step in which one of the guarded methods is called from outside
MethodStep ==
    \/ ParseCall
    \/ PauseCall
    \/ ResumeCall
    \/ ResetCall
    \/ SetEncodingCall
    \/ SetUnknownEncodingCall

\* C30: on a destroyed stream parse, pause, resume, reset, setEncoding and
\* setUnknownEncoding return false and do not throw, the native parser (its
\* state, encoding, table, position counters and last error) stays as it
\* is, and so does the stored default encoding.
C30_DestroyedMethodsReturnFalse ==
    [][(destroyed /\ MethodStep)
         => /\ last'.ret = "false"
            /\ np' = np
            /\ _encoding' = _encoding]_vars

\* C30's case: setEncoding() has just returned false on a stream destroyed
\* before any input, whose parser would have accepted the encoding
C30_SetEncodingOnDestroyed ==
    /\ destroyed /\ last.op = "setEncoding" /\ last.ret = "false"
    /\ np.state = "Ready" /\ np.encoding = NULL /\ _encoding = NULL

IsPrefix(s, t) == Len(s) <= Len(t) /\ SubSeq(t, 1, Len(s)) = s

\* a chunk handed over while the parser is paused is accepted and kept,
\* behind the input still unconsumed, and no event is delivered for it yet
KeptWhilePaused ==
    (np.state = "Paused" /\ (Write \/ ParseCall))
        => /\ last'.ret = "true"
           /\ np'.buf = np.buf \o SubSeq(input', Len(input) + 1, Len(input'))
           /\ np'.pend = np.pend
           /\ events' = events

\* resume() delivers what is undelivered, in order and once: either all the
\* events of the input handed over so far, or, when a listener pauses the
\* parser again, at least one more event of them
DeliveredOnResume ==
    (ResumeCall /\ resets = 0)
        => IF np'.state = "Paused"
           THEN /\ NParse(events') > NParse(events)
                /\ IsPrefix(ParseEvents(events'), Undisturbed(input))
           ELSE ParseEvents(events') = Undisturbed(input)

\* C26: a chunk handed to the parser while it is paused is kept and is not
\* reported as an error, and resume() delivers first the undelivered events
\* of the earlier input and then those of that chunk, in arrival order and
\* once each.
C26_ChunkWhilePaused ==
    /\ [][KeptWhilePaused]_vars
    /\ [][DeliveredOnResume]_vars

\* C26 as long as the stream is not destroyed when resume() is called
C26_ChunkWhilePausedNotDestroyed ==
    /\ [][KeptWhilePaused]_vars
    /\ [][~destroyed => DeliveredOnResume]_vars

\* C26 where it goes wrong: the parser was paused between two chunks before
\* any event, a chunk arrived while it was paused, the stream was ended and
\* destroyed, and resume() returned false with the chunk still undelivered
C26_ChunkLostAfterEnd ==
    /\ last.op = "resume" /\ last.ret = "false"
    /\ destroyed /\ ended /\ np.state = "Paused"
    /\ NParse(events) = 0 /\ np.buf # <<>>
    /\ Undisturbed(input) # <<>>

\* C26's case on a stream that is not destroyed: resume() has delivered the
\* events of input that arrived while the parser was paused
C26_ChunkDeliveredOnResume ==
    /\ last.op = "resume" /\ last.ret = "true" /\ ~destroyed
    /\ pauseOn # {} /\ resets = 0
    /\ \A i \in 1..Len(events) : events[i].data \notin pauseOn
    /\ NParse(events) > 1

\* the last call was a write or parse call that returned without an error
\* and left the parser unpaused
ReturnedUnpaused ==
    /\ last.op \in {"write", "parse"} /\ last.ret = "true"
    /\ np.state # "Paused"

\* C27: when a write or parse call has returned without an error and
\* without a pause, nothing received is left unconsumed or undelivered (an
\* incomplete trailing token apart), the events delivered are all those of
\* the input received so far, and line, column and byte index are those at
\* the end of that input.
C27_DeliveredOnReturn ==
    ReturnedUnpaused
        => /\ np.buf = <<>> /\ np.pend = <<>> /\ np.txt = <<>>
           /\ ParseEvents(events) = Undisturbed(input)
           /\ getCurrentByteIndex(This) = (IF input = <<>> THEN -1 ELSE Len(input))
           /\ getCurrentLineNumber(This) = 1 + CountLF(input, Len(input))
           /\ getCurrentColumnNumber(This) = CharsSinceLF(input, Len(input))

\* C27's case: a write of a later chunk has returned with text delivered
\* and an incomplete tag carried over
C27_ReturnedMidToken ==
    /\ ReturnedUnpaused /\ last.op = "write"
    /\ np.tok = "TagOpen" /\ Len(input) > 3 /\ Len(input) < Len(doc)
    /\ events # <<>> /\ events[Len(events)].type = "text"

\* input that is a well-formed document up to its end, except that an
\* element is still open or a token unfinished there
IncompleteAtEnd(d) ==
    LET r == WholeRun("lib", d, TRUE)
    IN  r.ret = "throw" /\ r.err.message = ErrIncomplete

\* C28: the chunks written are parsed in write order, not as final: a write
\* that returns with the parser not paused has delivered the events of the
\* chunks written so far put together; end() comes after every write and
\* runs the final parse; a stream whose input is incomplete at end() has an
\* error handed to the final callback and never finishes successfully; and
\* before end() no call fails for incompleteness.
C28_WriteThenFinal ==
    /\ [][Write => /\ ~np'.final
                   /\ (last'.ret = "true" /\ np'.state # "Paused")
                        => ParseEvents(events') = Undisturbed(SubSeq(doc, 1, fed'))]_vars
    /\ [][End => /\ fed = Len(doc)
                 /\ parseOk(This') => np'.final]_vars
    /\ [][ended => ~(Write \/ End)]_vars
    /\ [][(End /\ IncompleteAtEnd(input))
            => (last'.ret = "throw" /\ errored'.message = ErrIncomplete)]_vars
    /\ []((Emitted(events, "finish") /\ resets = 0) => ~IncompleteAtEnd(input))
    /\ [](~ended => /\ errored.message # ErrIncomplete
                    /\ last.err.message # ErrIncomplete)

\* C28 for consumers that never pause the parser
C28_WriteThenFinalNeverPaused ==
    /\ [][Write => /\ ~np'.final
                   /\ (last'.ret = "true" /\ np'.state # "Paused")
                        => ParseEvents(events') = Undisturbed(SubSeq(doc, 1, fed'))]_vars
    /\ [][End => /\ fed = Len(doc)
                 /\ parseOk(This') => np'.final]_vars
    /\ [][ended => ~(Write \/ End)]_vars
    /\ [][(End /\ IncompleteAtEnd(input) /\ pauseOn = {})
            => (last'.ret = "throw" /\ errored'.message = ErrIncomplete)]_vars
    /\ []((Emitted(events, "finish") /\ resets = 0 /\ pauseOn = {})
            => ~IncompleteAtEnd(input))
    /\ [](~ended => /\ errored.message # ErrIncomplete
                    /\ last.err.message # ErrIncomplete)

\* C28's case: a document written in several chunks was still incomplete
\* when the stream was ended, and the final parse failed for it
C28_IncompleteFailedAtEnd ==
    /\ ended /\ last.op = "final" /\ last.ret = "throw"
    /\ errored.message = ErrIncomplete
    /\ np.stack # <<>> /\ events # <<>>

\* C28 where it goes wrong: the stream has finished although its input is
\* incomplete, the parser having been paused when it was ended
C28_FinishedIncomplete ==
    /\ Emitted(events, "finish") /\ IncompleteAtEnd(input)
    /\ np.state = "Paused"
====
